---- MODULE Spec2Model ----
(***************************************************************************)
(* The competitor-team dashboard of streamlit_app.py as a state machine.   *)
(* One run of the script is a sequence of steps (load, normalize, sidebar, *)
(* filter, empty guard, KPIs, three tabs, download); a widget interaction  *)
(* reruns the script from the top over the same uploaded file.             *)
(*                                                                         *)
(* Text is a sequence of one-character strings.  A DataFrame cell is a     *)
(* record [k, s, n]: k = "nan" (missing), k = "str" (text s) or k = "num"  *)
(* (a number, n counted in halves so that 2.5 is n = 5).                   *)
(***************************************************************************)
EXTENDS Integers, Sequences, FiniteSets, TLC

VARIABLES csv, df, firms_options, offices_options, selected_firms,
          selected_offices, year_range, filtered_df, pc, notice, kpi,
          team_size, yt, charts, download

vars == <<csv, df, firms_options, offices_options, selected_firms,
          selected_offices, year_range, filtered_df, pc, notice, kpi,
          team_size, yt, charts, download>>

\* Largest number of data rows of an uploaded file.
MaxRows == 2

----------------------------------------------------------------------------
(* Characters and text *)

\* The characters of the model in code-point order (what Python's str
\* comparison and sorted() use).
Alphabet ==
    <<" ", ".", "0", "1", "2", "3", "4", "5", "6", "7", "8", "9",
      "A", "B", "F", "N", "O", "P", "Q", "U",
      "a", "c", "e", "f", "h", "i", "k", "m", "n", "o", "r", "t", "w", "x">>

Ord(c) == CHOOSE i \in 1..Len(Alphabet) : Alphabet[i] = c

Digits == <<"0", "1", "2", "3", "4", "5", "6", "7", "8", "9">>

IsDigit(c) == \E i \in 1..Len(Digits) : Digits[i] = c

DigitVal(c) == (CHOOSE i \in 1..Len(Digits) : Digits[i] = c) - 1

\* str < str of Python: lexicographic by code point, a proper prefix first.
RECURSIVE TextLess(_, _)
TextLess(a, b) ==
    IF b = <<>> THEN FALSE
    ELSE IF a = <<>> THEN TRUE
    ELSE IF Head(a) = Head(b) THEN TextLess(Tail(a), Tail(b))
    ELSE Ord(Head(a)) < Ord(Head(b))

RECURSIVE LStrip(_)
LStrip(t) == IF t # <<>> /\ Head(t) = " " THEN LStrip(Tail(t)) ELSE t

RECURSIVE RStrip(_)
RStrip(t) ==
    IF t # <<>> /\ t[Len(t)] = " " THEN RStrip(SubSeq(t, 1, Len(t) - 1)) ELSE t

\* str.strip()
Strip(t) == RStrip(LStrip(t))

IsDigits(t) == t # <<>> /\ \A i \in 1..Len(t) : IsDigit(t[i])

RECURSIVE IntOf(_)
IntOf(t) ==
    IF t = <<>> THEN 0
    ELSE 10 * IntOf(SubSeq(t, 1, Len(t) - 1)) + DigitVal(t[Len(t)])

RECURSIVE DigitsOf(_)
DigitsOf(i) ==
    IF i < 10 THEN <<Digits[i + 1]>>
    ELSE DigitsOf(i \div 10) \o <<Digits[(i % 10) + 1]>>

\* The numeric literals of the model: digits, optionally followed by ".0" or
\* ".5" (numbers are held in halves).
IsNumeric(t) ==
    \/ IsDigits(t)
    \/ /\ Len(t) >= 3
       /\ t[Len(t) - 1] = "."
       /\ t[Len(t)] \in {"0", "5"}
       /\ IsDigits(SubSeq(t, 1, Len(t) - 2))

IsIntLiteral(t) == IsDigits(t)

\* The value of a numeric literal, in halves.
ParseNum(t) ==
    IF IsDigits(t) THEN 2 * IntOf(t)
    ELSE 2 * IntOf(SubSeq(t, 1, Len(t) - 2))
         + (IF t[Len(t)] = "5" THEN 1 ELSE 0)

\* repr of a number: "2" for an int64 cell, "2.0" / "2.5" for a float64 cell.
FormatNum(h, dtype) ==
    IF dtype = "int64" THEN DigitsOf(h \div 2)
    ELSE DigitsOf(h \div 2) \o <<".", IF h % 2 = 1 THEN "5" ELSE "0">>

----------------------------------------------------------------------------
(* Cells *)

NaN == [k |-> "nan", s |-> <<>>, n |-> 0]

Str(t) == [k |-> "str", s |-> t, n |-> 0]

Num(h) == [k |-> "num", s |-> <<>>, n |-> h]

\* str(v) of a cell taken out of a column (tolist / astype(str)).
StrOf(v, dtype) ==
    IF v.k = "str" THEN v.s
    ELSE IF v.k = "nan" THEN <<"n", "a", "n">>
    ELSE FormatNum(v.n, dtype)

\* v < w of Python for two cells of one column (both text or both numbers).
ValLess(v, w) ==
    IF v.k = "str" /\ w.k = "str" THEN TextLess(v.s, w.s)
    ELSE IF v.k = "num" /\ w.k = "num" THEN v.n < w.n
    ELSE FALSE

----------------------------------------------------------------------------
(* Sequences *)

Range(s) == {s[i] : i \in 1..Len(s)}

\* The column col of a frame, as the sequence of its cells.
Column(d, col) == [i \in 1..Len(d.rows) |-> d.rows[i][col]]

\* Series.dropna()
RECURSIVE dropna(_)
dropna(s) ==
    IF s = <<>> THEN <<>>
    ELSE IF Head(s).k = "nan" THEN dropna(Tail(s))
    ELSE <<Head(s)>> \o dropna(Tail(s))

\* Series.unique(): the distinct values in order of first occurrence.
RECURSIVE unique(_)
unique(s) ==
    IF s = <<>> THEN <<>>
    ELSE LET front == unique(SubSeq(s, 1, Len(s) - 1))
             last  == s[Len(s)]
         IN  IF last \in Range(front) THEN front ELSE Append(front, last)

\* sorted() left out: the values stay in order of first occurrence.
sorted_mut(s) == s

RECURSIVE sorted(_)

\* Insertion of x into the ascending sequence s, after its equals (stable).
RECURSIVE Insert(_, _)
Insert(x, s) ==
    IF s = <<>> THEN <<x>>
    ELSE IF ValLess(x, Head(s)) THEN <<x>> \o s
    ELSE <<Head(s)>> \o Insert(x, Tail(s))

\* sorted(vals) of a list of cells
sorted(s) ==
    IF s = <<>> THEN <<>>
    ELSE Insert(s[Len(s)], sorted(SubSeq(s, 1, Len(s) - 1)))

----------------------------------------------------------------------------
(* Schema *)

FirmName == "Firm Name"
NameCol == "Name"
YearJoined == "Year Joined"
CurrentOffice == "Current Office"

UnknownFirm == <<"U", "n", "k", "n", "o", "w", "n", " ", "F", "i", "r", "m">>
UnknownName == <<"U", "n", "k", "n", "o", "w", "n", " ", "N", "a", "m", "e">>
UnknownOffice ==
    <<"U", "n", "k", "n", "o", "w", "n", " ", "O", "f", "f", "i", "c", "e">>
Other == <<"O", "t", "h", "e", "r">>

\* Expected columns and the default each gets when the file lacks it.
expected_cols_defaults ==
    [c \in {"Firm Name", "Name", "Title", "Harmonized title", "Year Joined",
            "Current Office", "Team Associated", "Harmonized team",
            "Investment sub-team / Area of focus", "Harmonized sub-team",
            "Prior Experience", "Masters Degree", "Undergraduate",
            "Committee memberships"} |->
        CASE c = "Firm Name" -> Str(UnknownFirm)
          [] c = "Name" -> Str(UnknownName)
          [] c = "Harmonized title" -> Str(Other)
          [] c = "Year Joined" -> NaN
          [] c = "Current Office" -> Str(UnknownOffice)
          [] c = "Harmonized team" -> Str(Other)
          [] c = "Harmonized sub-team" -> Str(Other)
          [] OTHER -> Str(<<>>)]

ExpectedCols == DOMAIN expected_cols_defaults

----------------------------------------------------------------------------
(* Load and normalize *)

\* The dtype pandas infers for a column of CSV fields: a column whose
\* non-empty fields are all numeric literals is numeric (int64 when they are
\* all integer literals and no field is empty, float64 otherwise; an all-empty
\* column is float64), any other column, and every column of a file without
\* data rows, is object.
InferDtype(cells) ==
    LET full == SelectSeq(cells, LAMBDA t : t # <<>>)
    IN  IF Len(cells) = 0 THEN "object"
        ELSE IF \A i \in 1..Len(full) : IsNumeric(full[i])
        THEN IF Len(full) = Len(cells) /\ Len(cells) > 0
                /\ \A i \in 1..Len(full) : IsIntLiteral(full[i])
             THEN "int64" ELSE "float64"
        ELSE "object"

\* One CSV field read into a column of the given dtype: the empty field is
\* missing; a field of a numeric column is its number, of an object column
\* its text.
ReadField(t, dtype) ==
    IF t = <<>> THEN NaN
    ELSE IF dtype = "object" THEN Str(t)
    ELSE Num(ParseNum(t))

\* pd.read_csv
read_csv(file) ==
    LET dt == [c \in file.cols |->
                  InferDtype([i \in 1..Len(file.rows) |-> file.rows[i][c]])]
    IN  [cols   |-> file.cols,
         dtypes |-> dt,
         rows   |-> [i \in 1..Len(file.rows) |->
                       [c \in file.cols |-> ReadField(file.rows[i][c], dt[c])]]]

\* Every missing column filled with "" instead of its own default.
add_missing_cols_mut(d) ==
    LET all == d.cols \cup ExpectedCols
    IN  [cols   |-> all,
         dtypes |-> [c \in all |-> IF c \in d.cols THEN d.dtypes[c] ELSE "object"],
         rows   |-> [i \in 1..Len(d.rows) |->
                       [c \in all |-> IF c \in d.cols THEN d.rows[i][c]
                                      ELSE Str(<<>>)]]]

\* for col, default in expected_cols_defaults.items():
\*     if col not in df.columns: df[col] = default
add_missing_cols(d) ==
    LET all == d.cols \cup ExpectedCols
    IN  [cols   |-> all,
         dtypes |-> [c \in all |-> IF c \in d.cols THEN d.dtypes[c] ELSE "object"],
         rows   |-> [i \in 1..Len(d.rows) |->
                       [c \in all |-> IF c \in d.cols THEN d.rows[i][c]
                                      ELSE expected_cols_defaults[c]]]]

\* errors="ignore" instead of "coerce": text that is no number stays.
to_numeric_cell_mut(v) ==
    IF v.k = "str" /\ IsNumeric(v.s) THEN Num(ParseNum(v.s)) ELSE v

\* pd.to_numeric(errors="coerce") of one cell: a number stays, text that is a
\* numeric literal becomes its number, anything else becomes NaN.
to_numeric_cell(v) ==
    IF v.k = "num" THEN v
    ELSE IF v.k = "str" /\ IsNumeric(v.s) THEN Num(ParseNum(v.s))
    ELSE NaN

\* df["Year Joined"] = pd.to_numeric(df["Year Joined"], errors="coerce")
to_numeric_year(d) ==
    LET col == [i \in 1..Len(d.rows) |-> to_numeric_cell(d.rows[i][YearJoined])]
        dt  == IF d.dtypes[YearJoined] # "object" THEN d.dtypes[YearJoined]
               ELSE IF Len(col) > 0
                       /\ \A i \in 1..Len(col) : col[i].k = "num" /\ col[i].n % 2 = 0
                    THEN "int64" ELSE "float64"
    IN  [cols   |-> d.cols,
         dtypes |-> [d.dtypes EXCEPT ![YearJoined] = dt],
         rows   |-> [i \in 1..Len(d.rows) |->
                       [d.rows[i] EXCEPT ![YearJoined] = col[i]]]]

normalize(d) == to_numeric_year(add_missing_cols(d))

----------------------------------------------------------------------------
(* Sidebar *)

\* def unique_options(series, fallback=None); fallback is <<>> for None and
\* <<v>> for the value v, so that "[fallback] if fallback is not None else []"
\* is fallback itself.
unique_options(series, dtype, fallback) ==
    LET vals == SelectSeq(unique(dropna(series)),
                          LAMBDA v : Strip(StrOf(v, dtype)) # <<>>)
    IN  IF vals = <<>> THEN fallback ELSE sorted(vals)

\* years_nonnull = df["Year Joined"].dropna()
years_nonnull(d) == dropna(Column(d, YearJoined))

\* has_years = not years_nonnull.empty
has_years(d) == years_nonnull(d) # <<>>

SeqMin(s) == CHOOSE x \in Range(s) : \A y \in Range(s) : x <= y

SeqMax(s) == CHOOSE x \in Range(s) : \A y \in Range(s) : x >= y

YearNums(d) == [i \in 1..Len(years_nonnull(d)) |-> years_nonnull(d)[i].n]

\* int(years_nonnull.min()): truncation of a non-negative number of halves
min_year(d) == SeqMin(YearNums(d)) \div 2

\* int(years_nonnull.max())
max_year(d) == SeqMax(YearNums(d)) \div 2

\* year_range = None
NoRange == [active |-> FALSE, lo |-> 0, hi |-> 0]

\* The values the slider can return: a pair lo <= hi within [min_year,
\* max_year], (min_year, max_year) by default.
SliderValues(d) ==
    {r \in [active : {TRUE}, lo : min_year(d)..max_year(d),
                            hi : min_year(d)..max_year(d)] : r.lo <= r.hi}

DefaultRange(d) ==
    IF has_years(d)
    THEN [active |-> TRUE, lo |-> min_year(d), hi |-> max_year(d)]
    ELSE NoRange

----------------------------------------------------------------------------
(* Apply filters *)

\* The "if selected:" test left out: an empty selection keeps no row.
isin_filter_mut(d, col, selected) ==
    [d EXCEPT !.rows = SelectSeq(d.rows, LAMBDA r : r[col] \in selected)]

\* if selected: filtered_df = filtered_df[filtered_df[col].isin(selected)]
isin_filter(d, col, selected) ==
    IF selected # {}
    THEN [d EXCEPT !.rows = SelectSeq(d.rows, LAMBDA r : r[col] \in selected)]
    ELSE d

\* between with the upper end exclusive.
between_mut(v, lo, hi) == v.k = "num" /\ 2 * lo <= v.n /\ v.n < 2 * hi

\* Series.between(lo, hi) of one cell, both ends inclusive; NaN compares false.
between(v, lo, hi) == v.k = "num" /\ 2 * lo <= v.n /\ v.n <= 2 * hi

\* if has_years and year_range is not None:
\*     filtered_df = filtered_df[notna & between(year_range[0], year_range[1])]
year_filter(d, hasYears, yr) ==
    IF hasYears /\ yr.active
    THEN [d EXCEPT !.rows =
             SelectSeq(d.rows, LAMBDA r : r[YearJoined].k # "nan"
                                          /\ between(r[YearJoined], yr.lo, yr.hi))]
    ELSE d

apply_filters(d, firms, offices, yr) ==
    year_filter(isin_filter(isin_filter(d, FirmName, firms),
                            CurrentOffice, offices),
                has_years(d), yr)

\* The emptiness test always false: the run never stops on an empty view.
empty_mut(d) == FALSE

\* filtered_df.empty
empty(d) == Len(d.rows) = 0

----------------------------------------------------------------------------
(* KPI cards *)

\* Series.nunique(): the number of distinct non-missing values
nunique(series) == Cardinality(Range(dropna(series)))

RECURSIVE SeqSum(_)
SeqSum(s) == IF s = <<>> THEN 0 ELSE Head(s) + SeqSum(Tail(s))

\* avg_year_val = filtered_df["Year Joined"].dropna().mean()
\* avg_year = f"{int(avg_year_val)}" if not np.isnan(avg_year_val) else "N/A"
avg_year(d) ==
    IF has_years(d)
    THEN [na |-> FALSE, v |-> SeqSum(YearNums(d)) \div (2 * Len(YearNums(d)))]
    ELSE [na |-> TRUE, v |-> 0]

NoKpi ==
    [done |-> FALSE, total_team |-> 0, avg_year |-> [na |-> TRUE, v |-> 0],
     num_offices |-> 0, unique_titles |-> 0]

kpi_cards(d) ==
    [done          |-> TRUE,
     total_team    |-> nunique(Column(d, NameCol)),
     avg_year      |-> avg_year(d),
     num_offices   |-> nunique(Column(d, CurrentOffice)),
     unique_titles |-> nunique(Column(d, "Harmonized title"))]

----------------------------------------------------------------------------
(* Plotting helpers and aggregations *)

\* def can_plot_column(df_, col)
can_plot_column(d, col) ==
    /\ col \in d.cols
    /\ dropna(Column(d, col)) # <<>>
    /\ \E i \in 1..Len(d.rows) :
          Strip(StrOf(d.rows[i][col], d.dtypes[col])) # <<>>

\* The key of a row under the grouping columns by (a sequence of columns).
KeyOf(r, by) == [j \in 1..Len(by) |-> r[by[j]]]

\* Tuple order of two keys of the same length.
RECURSIVE KeyLess(_, _)
KeyLess(a, b) ==
    IF a = <<>> THEN FALSE
    ELSE IF Head(a) = Head(b) THEN KeyLess(Tail(a), Tail(b))
    ELSE ValLess(Head(a), Head(b))

RECURSIVE SortKeys(_)
SortKeys(S) ==
    IF S = {} THEN <<>>
    ELSE LET m == CHOOSE k \in S : \A o \in S \ {k} : KeyLess(k, o)
         IN  <<m>> \o SortKeys(S \ {m})

\* df_.groupby(by)["Name"].count().reset_index().rename(columns={"Name":
\* "Count"}): one row per distinct key without a missing component (groupby
\* drops them), in key order; Count is the number of the group's rows whose
\* Name is not missing.
groupby_count(d, by) ==
    LET keyed == SelectSeq(d.rows,
                           LAMBDA r : \A j \in 1..Len(by) : r[by[j]].k # "nan")
        keys  == SortKeys({KeyOf(keyed[i], by) : i \in 1..Len(keyed)})
    IN  [g \in 1..Len(keys) |->
            [key   |-> keys[g],
             Count |-> Cardinality({i \in 1..Len(keyed) :
                                      /\ KeyOf(keyed[i], by) = keys[g]
                                      /\ keyed[i][NameCol].k # "nan"})]]

NoAgg == [done |-> FALSE, rows |-> <<>>]

\* yt = yt.dropna(subset=["Year Joined"])
yt_dropna(rows) == SelectSeq(rows, LAMBDA g : g.key[1].k # "nan")

\* edu_df = filtered_df.melt(id_vars=["Firm Name"], value_vars=edu_cols,
\*                          var_name="Degree Type", value_name="Degree")
\* (a Degree Type cell holds the column's name whole, as one symbol)
melt(d, edu_cols) ==
    LET n == Len(d.rows)
    IN  [cols   |-> {FirmName, "Degree Type", "Degree"},
         dtypes |-> [c \in {FirmName, "Degree Type", "Degree"} |->
                       IF c = FirmName THEN d.dtypes[FirmName] ELSE "object"],
         rows   |-> [i \in 1..(n * Len(edu_cols)) |->
                       LET col == edu_cols[((i - 1) \div n) + 1]
                           r   == d.rows[((i - 1) % n) + 1]
                       IN  [c \in {FirmName, "Degree Type", "Degree"} |->
                              IF c = FirmName THEN r[FirmName]
                              ELSE IF c = "Degree" THEN r[col]
                              ELSE Str(<<col>>)]]]

ChartNames ==
    {"team_size", "hiring", "title", "team", "subteam", "office", "education",
     "committee"}

\* What the script did about one chart: guard is the outcome of the
\* can_plot_column check that gates it ("none": no such check was made),
\* outcome is "chart" (aggregation or chart requested) or "info" (st.info).
NoChart == [guard |-> "none", outcome |-> "none"]

\* The early return left out: the histogram is requested whatever the guard.
safe_histogram_mut(d, x) ==
    [guard |-> IF can_plot_column(d, x) THEN "true" ELSE "false",
     outcome |-> "chart"]

\* def safe_histogram(df_, x, color, title, barmode="group")
safe_histogram(d, x) ==
    IF ~ can_plot_column(d, x)
    THEN [guard |-> "false", outcome |-> "info"]
    ELSE [guard |-> "true", outcome |-> "chart"]

----------------------------------------------------------------------------
(* Download *)

\* filtered_df.to_csv(index=False): a missing cell is written as the empty
\* field, text as itself, a number as its repr.
to_csv(d) ==
    [cols |-> d.cols,
     rows |-> [i \in 1..Len(d.rows) |->
                 [c \in d.cols |->
                    IF d.rows[i][c].k = "nan" THEN <<>>
                    ELSE StrOf(d.rows[i][c], d.dtypes[c])]]]

NoFile == [cols |-> {}, rows |-> <<>>]

NoFrame == [cols |-> {}, dtypes |-> <<>>, rows |-> <<>>]

----------------------------------------------------------------------------
(* Uploaded files *)

\* All rows over the columns of dom, the field of column c drawn from dom[c].
RECURSIVE RowsOver(_)
RowsOver(dom) ==
    IF DOMAIN dom = {} THEN {<<>>}
    ELSE LET c    == CHOOSE x \in DOMAIN dom : TRUE
             rest == RowsOver([x \in DOMAIN dom \ {c} |-> dom[x]])
         IN  {(c :> t) @@ r : t \in dom[c], r \in rest}

\* All files of at most MaxRows rows over the columns of dom.
FilesOver(dom) ==
    UNION {[cols : {DOMAIN dom}, rows : [1..n -> RowsOver(dom)]] :
             n \in 0..MaxRows}

\* Files that exercise the filters: two firms or none, two offices, years 1
\* and 2 or none.
FilterFiles ==
    FilesOver([c \in {FirmName, CurrentOffice, YearJoined} |->
                 CASE c = FirmName -> {<<>>, <<"A">>, <<"B">>}
                   [] c = CurrentOffice -> {<<"P">>, <<"Q">>}
                   [] c = YearJoined -> {<<>>, <<"1">>, <<"2">>}])

\* Files with empty and blank fields and no year column.
BlankFiles ==
    FilesOver([c \in {FirmName, NameCol, CurrentOffice} |->
                 CASE c = FirmName -> {<<>>, <<"A">>, <<"B">>}
                   [] c = NameCol -> {<<>>, <<"x">>}
                   [] c = CurrentOffice -> {<<>>, <<" ">>, <<"P">>}])

\* Files with fractional and non-numeric years and a column outside the
\* schema.
YearFiles ==
    FilesOver([c \in {YearJoined, "Masters Degree", "Notes"} |->
                 CASE c = YearJoined -> {<<"1">>, <<"2", ".", "5">>, <<"x">>}
                   [] c = "Masters Degree" -> {<<>>, <<"B", "A">>}
                   [] c = "Notes" -> {<<>>, <<"x">>}])

----------------------------------------------------------------------------
(* The script *)

Init ==
    /\ csv \in FilterFiles \cup BlankFiles \cup YearFiles
    /\ df = NoFrame
    /\ firms_options = <<>>
    /\ offices_options = <<>>
    /\ selected_firms = {}
    /\ selected_offices = {}
    /\ year_range = NoRange
    /\ filtered_df = NoFrame
    /\ pc = "start"
    /\ notice = FALSE
    /\ kpi = NoKpi
    /\ team_size = NoAgg
    /\ yt = NoAgg
    /\ charts = [c \in ChartNames |-> NoChart]
    /\ download = NoFile

\* df = pd.read_csv(uploaded_file)
Load ==
    /\ pc = "start"
    /\ df' = read_csv(csv)
    /\ pc' = "loaded"
    /\ UNCHANGED <<csv, firms_options, offices_options, selected_firms,
                   selected_offices, year_range, filtered_df, notice, kpi,
                   team_size, yt, charts, download>>

\* Add missing cols with defaults; convert Year Joined to numeric
Normalize ==
    /\ pc = "loaded"
    /\ df' = normalize(df)
    /\ pc' = "normalized"
    /\ UNCHANGED <<csv, firms_options, offices_options, selected_firms,
                   selected_offices, year_range, filtered_df, notice, kpi,
                   team_size, yt, charts, download>>

\* Sidebar filters: the option lists, and the widgets' values, which are any
\* subset of the options and any slider value.
Sidebar ==
    /\ pc = "normalized"
    /\ firms_options' = unique_options(Column(df, FirmName), df.dtypes[FirmName],
                                       <<Str(UnknownFirm)>>)
    /\ offices_options' = unique_options(Column(df, CurrentOffice),
                                         df.dtypes[CurrentOffice], <<>>)
    /\ selected_firms' \in SUBSET Range(firms_options')
    /\ selected_offices' \in SUBSET Range(offices_options')
    /\ IF has_years(df) THEN year_range' \in SliderValues(df)
                        ELSE year_range' = NoRange
    /\ pc' = "sidebar"
    /\ UNCHANGED <<csv, df, filtered_df, notice, kpi, team_size, yt, charts,
                   download>>

\* Apply filters
ApplyFilters ==
    /\ pc = "sidebar"
    /\ filtered_df' = apply_filters(df, selected_firms, selected_offices,
                                    year_range)
    /\ pc' = "filtered"
    /\ UNCHANGED <<csv, df, firms_options, offices_options, selected_firms,
                   selected_offices, year_range, notice, kpi, team_size, yt,
                   charts, download>>

\* if filtered_df.empty: st.warning(...); st.stop()
StopOnEmpty ==
    /\ pc = "filtered"
    /\ empty(filtered_df)
    /\ notice' = TRUE
    /\ pc' = "stopped"
    /\ UNCHANGED <<csv, df, firms_options, offices_options, selected_firms,
                   selected_offices, year_range, filtered_df, kpi, team_size,
                   yt, charts, download>>

\* KPI Cards
KpiCards ==
    /\ pc = "filtered"
    /\ ~ empty(filtered_df)
    /\ kpi' = kpi_cards(filtered_df)
    /\ pc' = "kpi"
    /\ UNCHANGED <<csv, df, firms_options, offices_options, selected_firms,
                   selected_offices, year_range, filtered_df, notice,
                   team_size, yt, charts, download>>

\* with tab1: Team Size by Firm
team_size_chart(d) ==
    IF can_plot_column(d, FirmName)
    THEN [agg   |-> [done |-> TRUE, rows |-> groupby_count(d, <<FirmName>>)],
          chart |-> [guard |-> "true", outcome |-> "chart"]]
    ELSE [agg   |-> NoAgg,
          chart |-> [guard |-> "false", outcome |-> "info"]]

\* with tab1: Hiring trends (if Year Joined exists)
hiring_chart(d, hasYears) ==
    IF hasYears
    THEN LET rows == yt_dropna(groupby_count(d, <<YearJoined, FirmName>>))
         IN  [agg   |-> [done |-> TRUE, rows |-> rows],
              chart |-> [guard   |-> "none",
                         outcome |-> IF rows # <<>> THEN "chart" ELSE "info"]]
    ELSE [agg   |-> NoAgg,
          chart |-> [guard |-> "none", outcome |-> "info"]]

Tab1 ==
    /\ pc = "kpi"
    /\ team_size' = team_size_chart(filtered_df).agg
    /\ yt' = hiring_chart(filtered_df, has_years(df)).agg
    /\ charts' = [charts EXCEPT
                    !["team_size"] = team_size_chart(filtered_df).chart,
                    !["hiring"] = hiring_chart(filtered_df, has_years(df)).chart]
    /\ pc' = "tab1"
    /\ UNCHANGED <<csv, df, firms_options, offices_options, selected_firms,
                   selected_offices, year_range, filtered_df, notice, kpi,
                   download>>

\* with tab2: the three harmonized histograms
Tab2 ==
    /\ pc = "tab1"
    /\ charts' = [charts EXCEPT
                    !["title"] = safe_histogram(filtered_df, "Harmonized title"),
                    !["team"] = safe_histogram(filtered_df, "Harmonized team"),
                    !["subteam"] = safe_histogram(filtered_df,
                                                  "Harmonized sub-team")]
    /\ pc' = "tab2"
    /\ UNCHANGED <<csv, df, firms_options, offices_options, selected_firms,
                   selected_offices, year_range, filtered_df, notice, kpi,
                   team_size, yt, download>>

\* with tab3: Education breakdown
education_chart(d) ==
    LET edu_cols == SelectSeq(<<"Masters Degree", "Undergraduate">>,
                              LAMBDA c : can_plot_column(d, c))
    IN  IF edu_cols # <<>>
        THEN LET edu_df == melt(d, edu_cols)
             IN  IF ~ empty(edu_df) /\ can_plot_column(edu_df, "Degree")
                 THEN [guard |-> "true", outcome |-> "chart"]
                 ELSE [guard |-> "false", outcome |-> "info"]
        ELSE [guard |-> "false", outcome |-> "info"]

Tab3 ==
    /\ pc = "tab2"
    /\ charts' = [charts EXCEPT
                    !["office"] = safe_histogram(filtered_df, CurrentOffice),
                    !["education"] = education_chart(filtered_df),
                    !["committee"] = safe_histogram(filtered_df,
                                                    "Committee memberships")]
    /\ pc' = "tab3"
    /\ UNCHANGED <<csv, df, firms_options, offices_options, selected_firms,
                   selected_offices, year_range, filtered_df, notice, kpi,
                   team_size, yt, download>>

\* Download button
Download ==
    /\ pc = "tab3"
    /\ download' = to_csv(filtered_df)
    /\ pc' = "done"
    /\ UNCHANGED <<csv, df, firms_options, offices_options, selected_firms,
                   selected_offices, year_range, filtered_df, notice, kpi,
                   team_size, yt, charts>>

\* A widget interaction reruns the script from the top over the same file.
Rerun ==
    /\ pc \in {"done", "stopped"}
    /\ df' = NoFrame
    /\ firms_options' = <<>>
    /\ offices_options' = <<>>
    /\ selected_firms' = {}
    /\ selected_offices' = {}
    /\ year_range' = NoRange
    /\ filtered_df' = NoFrame
    /\ pc' = "start"
    /\ notice' = FALSE
    /\ kpi' = NoKpi
    /\ team_size' = NoAgg
    /\ yt' = NoAgg
    /\ charts' = [c \in ChartNames |-> NoChart]
    /\ download' = NoFile
    /\ UNCHANGED csv

Next ==
    \/ Load
    \/ Normalize
    \/ Sidebar
    \/ ApplyFilters
    \/ StopOnEmpty
    \/ KpiCards
    \/ Tab1
    \/ Tab2
    \/ Tab3
    \/ Download
    \/ Rerun

Spec == Init /\ [][Next]_vars

----------------------------------------------------------------------------
(* Properties *)

\* The positions of a run at which the filtered view exists.
AfterFilter == {"filtered", "stopped", "kpi", "tab1", "tab2", "tab3", "done"}

\* The positions of a run at which the normalized dataset exists.
AfterNormalize == AfterFilter \cup {"normalized", "sidebar"}

\* A cell that is neither missing nor blank after trimming.
RealText(v) == v.k = "num" \/ (v.k = "str" /\ Strip(v.s) # <<>>)

\* C1: the filtered view is exactly the rows of the dataset, in order, that
\* satisfy all of: Firm Name in the selected firms when some are selected,
\* Current Office in the selected offices when some are selected, and, when a
\* year range is active, Year Joined not missing and within the range.
PassesAll(r) ==
    /\ selected_firms # {} => r[FirmName] \in selected_firms
    /\ selected_offices # {} => r[CurrentOffice] \in selected_offices
    /\ year_range.active =>
          /\ r[YearJoined].k = "num"
          /\ 2 * year_range.lo <= r[YearJoined].n
          /\ r[YearJoined].n <= 2 * year_range.hi

FilterIsConjunctiveSubsequence ==
    pc \in AfterFilter =>
       /\ filtered_df.cols = df.cols
       /\ filtered_df.rows = SelectSeq(df.rows, PassesAll)

\* A run whose three constraints are all active and whose range is the full
\* one: a row with a missing year that passes both selections is dropped and
\* the one other row is kept.
FilterDropsMissingYearWitness ==
    /\ pc = "filtered"
    /\ year_range = DefaultRange(df)
    /\ year_range.active
    /\ \E i \in 1..Len(df.rows) :
          /\ df.rows[i][YearJoined].k = "nan"
          /\ selected_firms # {} /\ df.rows[i][FirmName] \in selected_firms
          /\ selected_offices # {} /\ df.rows[i][CurrentOffice] \in selected_offices
    /\ Len(df.rows) = 2
    /\ Len(filtered_df.rows) = 1

\* C2: after normalization every record has a value for each of the 14 schema
\* fields; a field the file lacks holds its declared default; a column of the
\* file outside the schema is kept as it was read.
NormalizedHasAllFields ==
    pc \in AfterNormalize =>
       /\ Cardinality(ExpectedCols) = 14
       /\ ExpectedCols \subseteq df.cols
       /\ Len(df.rows) = Len(csv.rows)
       /\ \A i \in 1..Len(df.rows) :
             /\ DOMAIN df.rows[i] = df.cols
             /\ \A c \in ExpectedCols \ csv.cols :
                   df.rows[i][c] = expected_cols_defaults[c]
             /\ \A c \in csv.cols \ ExpectedCols :
                   df.rows[i][c] = read_csv(csv).rows[i][c]

\* A normalized file that lacked schema columns and had a column outside the
\* schema with a value in it.
NormalizeWitness ==
    /\ pc = "normalized"
    /\ Len(df.rows) = 2
    /\ FirmName \notin csv.cols
    /\ df.rows[1][FirmName] = Str(UnknownFirm)
    /\ df.rows[2]["Harmonized title"] = Str(Other)
    /\ "Notes" \in csv.cols
    /\ df.rows[1]["Notes"] = Str(<<"x">>)

\* C3 as stated: after normalization every Year Joined is an integer or
\* missing.
YearIsIntegerOrMissing ==
    pc \in AfterNormalize =>
       \A i \in 1..Len(df.rows) :
          \/ df.rows[i][YearJoined].k = "nan"
          \/ df.rows[i][YearJoined].k = "num" /\ df.rows[i][YearJoined].n % 2 = 0

\* C3 as amended: after normalization every Year Joined is a number (integer
\* or not) or missing, never text: a field that is a numeric literal becomes
\* its number, any other field becomes missing, and the same holds of the
\* filtered view.
YearIsNumberOrMissing ==
    /\ pc \in AfterNormalize =>
          \A i \in 1..Len(df.rows) :
             /\ df.rows[i][YearJoined].k \in {"nan", "num"}
             /\ YearJoined \in csv.cols =>
                   df.rows[i][YearJoined] =
                      IF IsNumeric(csv.rows[i][YearJoined])
                      THEN Num(ParseNum(csv.rows[i][YearJoined]))
                      ELSE NaN
    /\ pc \in AfterFilter =>
          \A i \in 1..Len(filtered_df.rows) :
             filtered_df.rows[i][YearJoined].k \in {"nan", "num"}

\* A normalized file with a non-numeric year next to a fractional one.
YearCoercionWitness ==
    /\ pc = "normalized"
    /\ Len(csv.rows) = 2
    /\ YearJoined \in csv.cols
    /\ csv.rows[1][YearJoined] = <<"x">>
    /\ df.rows[1][YearJoined] = NaN
    /\ csv.rows[2][YearJoined] = <<"2", ".", "5">>
    /\ df.rows[2][YearJoined] = Num(5)

\* C4: unique_options returns, for every field of the normalized dataset, the
\* distinct values that are neither missing nor blank after trimming, each
\* once, in ascending order; when there is none it returns the fallback (the
\* empty sequence when none is given).  Checked of every column of every
\* normalized dataset, with and without a fallback, and of the two option
\* lists the sidebar computes.
IsOptionsOf(opts, col, fallback) ==
    LET qualifying == {v \in Range(Column(df, col)) : RealText(v)}
    IN  IF qualifying = {} THEN opts = fallback
        ELSE /\ Range(opts) = qualifying
             /\ Len(opts) = Cardinality(qualifying)
             /\ \A i \in 1..Len(opts) : \A j \in 1..Len(opts) :
                   i < j => ValLess(opts[i], opts[j])

UniqueOptionsSortedDistinct ==
    /\ pc = "normalized" =>
          \A c \in df.cols :
             \A fallback \in {<<>>, <<Str(UnknownFirm)>>} :
                IsOptionsOf(unique_options(Column(df, c), df.dtypes[c], fallback),
                            c, fallback)
    /\ pc \in AfterFilter \cup {"sidebar"} =>
          /\ IsOptionsOf(firms_options, FirmName, <<Str(UnknownFirm)>>)
          /\ IsOptionsOf(offices_options, CurrentOffice, <<>>)

\* Options computed from a column whose values first occur in descending
\* order, next to a column that has only missing and blank values.
UniqueOptionsWitness ==
    /\ pc = "sidebar"
    /\ Len(df.rows) = 2
    /\ df.rows[1][FirmName] = Str(<<"B">>)
    /\ df.rows[2][FirmName] = Str(<<"A">>)
    /\ firms_options = <<Str(<<"A">>), Str(<<"B">>)>>
    /\ df.rows[1][CurrentOffice] = Str(<<" ">>)
    /\ df.rows[2][CurrentOffice] = NaN
    /\ offices_options = <<>>

\* C5 as stated: in every aggregation the program computes, each group key
\* occurs once and the counts add up to the number of rows of the filtered
\* view.
CountsOf(rows) == [g \in 1..Len(rows) |-> rows[g].Count]

KeysOnce(rows) ==
    \A g \in 1..Len(rows) : \A h \in 1..Len(rows) :
       rows[g].key = rows[h].key => g = h

AggregationCountsSumToRows ==
    /\ team_size.done =>
          /\ KeysOnce(team_size.rows)
          /\ SeqSum(CountsOf(team_size.rows)) = Len(filtered_df.rows)
    /\ yt.done =>
          /\ KeysOnce(yt.rows)
          /\ SeqSum(CountsOf(yt.rows)) = Len(filtered_df.rows)

\* C6 as stated: can_plot_column(view, field) is false when the field is
\* absent from the view or all its values are missing or blank after
\* trimming, and true when some row has a value that is neither.
CanPlotIffSomeRealValue ==
    pc \in AfterFilter =>
       \A c \in filtered_df.cols \cup {"Degree"} :
          can_plot_column(filtered_df, c) =
             /\ c \in filtered_df.cols
             /\ \E i \in 1..Len(filtered_df.rows) : RealText(filtered_df.rows[i][c])

\* C7: over an empty filtered view the run issues the notice and stops: no
\* KPI, no aggregation, no chart request and no export is made.
EmptyViewStopsRun ==
    (pc \in AfterFilter /\ Len(filtered_df.rows) = 0) =>
       /\ pc \in {"filtered", "stopped"}
       /\ pc = "stopped" => notice
       /\ kpi = NoKpi
       /\ team_size = NoAgg
       /\ yt = NoAgg
       /\ \A c \in ChartNames : charts[c] = NoChart
       /\ download = NoFile

\* A run stopped with the notice over an empty view of a non-empty dataset.
EmptyViewWitness ==
    /\ pc = "stopped"
    /\ notice
    /\ Len(df.rows) = 2
    /\ Len(filtered_df.rows) = 0

\* The grouping dimension of each histogram.
DimensionOf(c) ==
    CASE c = "team_size" -> FirmName
      [] c = "title" -> "Harmonized title"
      [] c = "team" -> "Harmonized team"
      [] c = "subteam" -> "Harmonized sub-team"
      [] c = "office" -> CurrentOffice
      [] c = "committee" -> "Committee memberships"

\* C8 as stated: no aggregation or chart request is made over the filtered
\* view while the plottability check of a dimension it groups by is false.
GuardFalseMeansNoAggregation ==
    /\ \A c \in ChartNames \ {"hiring", "education"} :
          charts[c].outcome = "chart" =>
             can_plot_column(filtered_df, DimensionOf(c))
    /\ team_size.done => can_plot_column(filtered_df, FirmName)
    /\ yt.done =>
          /\ can_plot_column(filtered_df, YearJoined)
          /\ can_plot_column(filtered_df, FirmName)

\* C8 as amended: team size by firm, each histogram and the education chart
\* are made only after a can_plot_column check on their dimension that was
\* true, and give an informational outcome when it was false; the hiring
\* trends aggregation is gated by has_years over the whole dataset instead,
\* and gives an informational outcome when has_years is false or the grouped
\* result is empty.
Drawn(c) ==
    CASE c \in {"team_size", "hiring"} -> pc \in {"tab1", "tab2", "tab3", "done"}
      [] c \in {"title", "team", "subteam"} -> pc \in {"tab2", "tab3", "done"}
      [] OTHER -> pc \in {"tab3", "done"}

ChartsGuardedExceptHiring ==
    /\ \A c \in ChartNames \ {"hiring", "education"} :
          IF Drawn(c)
          THEN /\ charts[c].guard =
                    (IF can_plot_column(filtered_df, DimensionOf(c))
                     THEN "true" ELSE "false")
               /\ charts[c].outcome =
                    (IF charts[c].guard = "true" THEN "chart" ELSE "info")
          ELSE charts[c] = NoChart
    /\ team_size.done = (charts["team_size"].guard = "true")
    /\ IF Drawn("education")
       THEN /\ charts["education"].guard \in {"true", "false"}
            /\ charts["education"].outcome =
                 (IF charts["education"].guard = "true" THEN "chart" ELSE "info")
            /\ charts["education"].guard = "true" =>
                 \/ can_plot_column(filtered_df, "Masters Degree")
                 \/ can_plot_column(filtered_df, "Undergraduate")
       ELSE charts["education"] = NoChart
    /\ IF Drawn("hiring")
       THEN /\ charts["hiring"].guard = "none"
            /\ yt.done = has_years(df)
            /\ charts["hiring"].outcome =
                 (IF yt.done /\ yt.rows # <<>> THEN "chart" ELSE "info")
       ELSE charts["hiring"] = NoChart /\ ~ yt.done

\* A run in which the hiring trends aggregation ran although Firm Name was
\* not plottable, a histogram was skipped and another was requested.
ChartsWitness ==
    /\ pc = "done"
    /\ yt.done
    /\ ~ can_plot_column(filtered_df, FirmName)
    /\ charts["team_size"] = [guard |-> "false", outcome |-> "info"]
    /\ charts["hiring"].outcome = "info"
    /\ charts["office"] = [guard |-> "true", outcome |-> "chart"]
    /\ charts["committee"] = [guard |-> "false", outcome |-> "info"]

\* The FilterSpec the user has not touched: no firm, no office, the slider
\* at its default.
EmptyFilterSpec ==
    /\ selected_firms = {}
    /\ selected_offices = {}
    /\ year_range = DefaultRange(df)

\* C9 as stated: the empty FilterSpec returns the dataset unchanged, rows with
\* a missing Year Joined included.
EmptyFilterSpecIsIdentity ==
    (pc \in AfterFilter /\ EmptyFilterSpec) => filtered_df = df

\* C9 as amended: the empty FilterSpec returns the dataset unchanged when the
\* dataset has no valid year; when it has one, the slider's default range
\* [int(min), int(max)] is active and the result is, in order, the rows whose
\* Year Joined is not missing and lies within it.
InDefaultRange(r) ==
    /\ r[YearJoined].k = "num"
    /\ 2 * min_year(df) <= r[YearJoined].n
    /\ r[YearJoined].n <= 2 * max_year(df)

EmptyFilterSpecKeepsYearRows ==
    (pc \in AfterFilter /\ EmptyFilterSpec) =>
       /\ filtered_df.cols = df.cols
       /\ filtered_df.dtypes = df.dtypes
       /\ filtered_df.rows =
            (IF \E i \in 1..Len(df.rows) : df.rows[i][YearJoined].k = "num"
             THEN SelectSeq(df.rows, InDefaultRange)
             ELSE df.rows)

\* The empty FilterSpec over a dataset with a dated row and an undated one:
\* the dated row is kept, the undated one dropped.
EmptyFilterSpecWitness ==
    /\ pc = "filtered"
    /\ EmptyFilterSpec
    /\ Len(df.rows) = 2
    /\ df.rows[1][YearJoined].k = "nan"
    /\ df.rows[2][YearJoined].k = "num"
    /\ filtered_df.rows = <<df.rows[2]>>

\* C10 as stated: the exported CSV of a non-empty filtered view, read and
\* normalized again, is the view: same rows, same value in every field.
ExportRoundTrip ==
    pc = "done" =>
       LET back == normalize(read_csv(download))
       IN  /\ back.cols = filtered_df.cols
           /\ back.rows = filtered_df.rows

====
